---- MODULE Spec2Model ----
(***************************************************************************)
(* Key-matrix scanner of haxo-rs (src/keyscan.rs): init_io, scan, the      *)
(* three bit primitives and the index computation of debug_print.          *)
(*                                                                         *)
(* A u32 is a bit vector; it is represented by the set of the positions of *)
(* its 1 bits (a subset of 0..31), so that |, & and ! are union,           *)
(* intersection and complement in 0..31.  FromNat gives the bit vector of  *)
(* a number.                                                               *)
(*                                                                         *)
(* The GPIO lines are the state of the rppal driver the code calls: per    *)
(* BCM pin a mode, an output level and a pull bias.  A key (r, c) that is  *)
(* pressed connects row line r to column line c.                           *)
(***************************************************************************)
EXTENDS Integers, Sequences, FiniteSets, TLC

\* ---------------------------------------------------------------- bounds
MaxPressed == 1   \* keys held down at the same time
MaxFaults == 1    \* line accesses that fail over one run
MaxOps == 2       \* bit-primitive calls chained on one word
MaxCalls == 1     \* scan calls of each of two concurrent threads

\* ------------------------------------------------------------- constants
ROWS == <<13, 12, 16, 17, 20, 22, 23, 24>>
COLS == <<25, 26, 27>>
ROW_PULL_DOWN_TIME_US == 10
Width == 32       \* bits of u32, the guard `n < 32`
U8 == 256         \* key_idx and n are u8

NumRows == Len(ROWS)
NumCols == Len(COLS)
RowIdx == 0 .. (NumRows - 1)
ColIdx == 0 .. (NumCols - 1)
RowPin(r) == ROWS[r + 1]
ColPin(c) == COLS[c + 1]
RowPins == {ROWS[i] : i \in 1 .. NumRows}
ColPins == {COLS[i] : i \in 1 .. NumCols}
Pins == RowPins \cup ColPins
Keys == RowIdx \X ColIdx
WordBits == 0 .. (Width - 1)

VARIABLES
  \* GPIO lines and keys
  mode, level, pull, pressed,
  \* the running call
  pc, call, row, col, key_idx, keymap, row_held, row_prev_mode, waited, ret,
  \* observation of the calls
  prevRet, failed, failLines, lateOps, touched, cleanStart, lowSamples, faults,
  trace,
  \* harness of the bit primitives
  bw_in, bw_n, bw_op, bw_out, bw_get, bw_steps,
  \* two threads calling scan: per thread its position, locals and result
  t_pc, t_row, t_col, t_key_idx, t_keymap, t_held, t_prev, t_ret, t_calls,
  serial, ghost

hwVars == <<mode, level, pull, pressed>>
progVars == <<pc, call, row, col, key_idx, keymap, row_held, row_prev_mode, waited, ret>>
histVars == <<prevRet, failed, failLines, lateOps, touched, cleanStart,
             lowSamples, faults, trace>>
bwVars == <<bw_in, bw_n, bw_op, bw_out, bw_get, bw_steps>>
twoVars == <<t_pc, t_row, t_col, t_key_idx, t_keymap, t_held, t_prev, t_ret,
             t_calls, serial, ghost>>
bitVars == <<bwVars, twoVars>>
vars == <<hwVars, progVars, histVars, bitVars>>

\* -------------------------------------------------------- bit primitives
RECURSIVE FromNat(_)
FromNat(x) ==
  IF x = 0 THEN {}
  ELSE (IF x % 2 = 1 THEN {0} ELSE {}) \cup {i + 1 : i \in FromNat(x \div 2)}

BitOr(a, b) == a \cup b
BitAnd(a, b) == a \cap b
BitNot(a) == WordBits \ a
\* 1 << n, for the n < 32 the callers guard
Shl1(n) == {n % Width}

get_bit_at(input, n) ==
  IF n < Width THEN BitAnd(input, Shl1(n)) # {} ELSE FALSE

set_bit_at_low(output, n) ==
  IF n < Width /\ n > 0 THEN BitOr(output, Shl1(n - 1)) ELSE output
set_bit_at_assign(output, n) ==
  IF n < Width THEN Shl1(n) ELSE output
set_bit_at_unguarded(output, n) == BitOr(output, Shl1(n))
set_bit_at(output, n) ==
  IF n < Width THEN BitOr(output, Shl1(n)) ELSE output

clear_bit_at(output, n) ==
  IF n < Width THEN BitAnd(output, BitNot(Shl1(n))) ELSE output

\* ------------------------------------------------------------ line driver
SetMode(modes, pin, md) == [modes EXCEPT ![pin] = md]
SetPull_off(pulls, pin, pu) == pulls
SetPull(pulls, pin, pu) == [pulls EXCEPT ![pin] = pu]
set_low(levels, pin) == [levels EXCEPT ![pin] = "Low"]
set_high_noop(levels, pin) == levels
set_high(levels, pin) == [levels EXCEPT ![pin] = "High"]

\* Drop of an rppal OutputPin: the mode it found is restored when it is not
\* Output and reset_on_drop is set.
DropOutputPin_reset(modes, pin, prev, reset_on_drop) ==
  SetMode(modes, pin, "Input")
DropOutputPin(modes, pin, prev, reset_on_drop) ==
  IF reset_on_drop /\ prev # "None" THEN SetMode(modes, pin, prev) ELSE modes

RowActive(r) == mode[RowPin(r)] = "Output" /\ level[RowPin(r)] = "Low"
ActiveRows == {r \in RowIdx : RowActive(r)}

\* Levels col_pin.read() can return: low through a pressed key of an active
\* row, high through the pull-up, anything on a floating input.
ReadLevels(c) ==
  IF \E r \in RowIdx : RowActive(r) /\ <<r, c>> \in pressed THEN {"Low"}
  ELSE IF pull[ColPin(c)] = "PullUp" THEN {"High"}
  ELSE {"Low", "High"}

\* ------------------------------------------------------------ scan helpers
NextKeyIdx_skip(k) == (k + 2) % U8
NextKeyIdx(k) == (k + 1) % U8

UpdateKeymap_swapped(km, k, is_pressed) ==
  IF get_bit_at(km, k) # is_pressed
  THEN (IF is_pressed THEN clear_bit_at(km, k) ELSE set_bit_at(km, k))
  ELSE km
UpdateKeymap(km, k, is_pressed) ==
  IF get_bit_at(km, k) # is_pressed
  THEN (IF is_pressed THEN set_bit_at(km, k) ELSE clear_bit_at(km, k))
  ELSE km

\* `for row in &ROWS`: where the loop goes after the body for row r
AfterRow_short(r) == IF r >= NumRows - 2 THEN "scan_ret" ELSE "scan_row"
AfterRow(r) == IF r = NumRows - 1 THEN "scan_ret" ELSE "scan_row"

\* the index debug_print reads for grid cell (ir, ic)
DebugIndex(ir, ic) == (ir * NumCols + ic) % U8

\* `?`: go on when the access succeeded, return the error otherwise
Try_ignore(ok, here, next) == next
Try_retry(ok, here, next) == IF ok THEN next ELSE here
Try(ok, here, next) == IF ok THEN next ELSE "unwind"

\* thread::sleep(Duration::from_micros(us)): the time that has passed when
\* it returns, taken at its least
sleep_none(us) == 0
sleep(us) == us

\* what a scan did to the lines, in order
Ev(what, r, x) == [ev |-> what, row |-> r, arg |-> x]

Outcomes == IF faults < MaxFaults THEN {TRUE, FALSE} ELSE {TRUE}

NoRet == [kind |-> "none", val |-> {}]
OkRet(v) == [kind |-> "ok", val |-> v]
ErrRet == [kind |-> "err", val |-> {}]

\* one line access of the running call, succeeding or not
Access(ok, pin) ==
  /\ faults' = (IF ok THEN faults ELSE faults + 1)
  /\ failLines' = (IF ok THEN failLines ELSE failLines \cup pin)
  /\ lateOps' = (IF failed THEN 1 ELSE lateOps)
  /\ failed' = (failed \/ ~ok)

\* ------------------------------------------------------------------ Init
HwInit ==
  \/ \* power-on: every line an input without bias
     /\ mode = [p \in Pins |-> "Input"]
     /\ level = [p \in Pins |-> "Low"]
     /\ pull = [p \in Pins |-> "Off"]
  \/ \* left by an earlier run: configured, at most one row still low
     /\ mode = [p \in Pins |-> IF p \in RowPins THEN "Output" ELSE "Input"]
     /\ \E low \in SUBSET RowPins :
          /\ Cardinality(low) <= 1
          /\ level = [p \in Pins |-> IF p \in low THEN "Low" ELSE "High"]
     /\ pull = [p \in Pins |-> IF p \in ColPins THEN "PullUp" ELSE "Off"]

ProgInit ==
  /\ pc = "start" /\ call = "none"
  /\ row = 0 /\ col = 0 /\ key_idx = 0 /\ keymap = {}
  /\ row_held = FALSE /\ row_prev_mode = "None" /\ waited = 0
  /\ ret = NoRet
  /\ prevRet = NoRet /\ failed = FALSE /\ failLines = {} /\ lateOps = 0
  /\ touched = {} /\ cleanStart = FALSE /\ lowSamples = {} /\ faults = 0
  /\ trace = <<>>

BitsIdle ==
  /\ bw_in = {} /\ bw_n = 0 /\ bw_op = "none" /\ bw_out = {}
  /\ bw_get = FALSE /\ bw_steps = 0

Ctx == {1, 2}
TwoIdle ==
  /\ t_pc = [c \in Ctx |-> "idle"]
  /\ t_row = [c \in Ctx |-> 0] /\ t_col = [c \in Ctx |-> 0]
  /\ t_key_idx = [c \in Ctx |-> 0] /\ t_keymap = [c \in Ctx |-> {}]
  /\ t_held = [c \in Ctx |-> FALSE] /\ t_prev = [c \in Ctx |-> "None"]
  /\ t_ret = [c \in Ctx |-> NoRet] /\ t_calls = [c \in Ctx |-> 0]
  /\ ghost = FALSE

Init ==
  /\ HwInit
  /\ pressed = {}
  /\ ProgInit
  /\ BitsIdle
  /\ TwoIdle /\ serial = TRUE

\* --------------------------------------------------------------- init_io
InitIoCall ==
  /\ pc = "start"
  /\ \E ok \in Outcomes :
       /\ Access(ok, {})
       /\ pc' = Try(ok, "start", "init_col")
  /\ call' = "init_io"
  /\ col' = 0
  /\ touched' = {}
  /\ UNCHANGED <<hwVars, row, key_idx, keymap, row_held, row_prev_mode, waited,
                 ret, prevRet, cleanStart, lowSamples, trace, bitVars>>

InitCol ==
  /\ pc = "init_col"
  /\ LET pin == ColPin(col) IN
     \E ok \in Outcomes :
       /\ Access(ok, {pin})
       /\ mode' = (IF ok THEN SetMode(mode, pin, "Input") ELSE mode)
       /\ pull' = (IF ok THEN SetPull(pull, pin, "PullUp") ELSE pull)
       /\ touched' = (IF ok THEN touched \cup {pin} ELSE touched)
       /\ col' = (IF ok THEN col + 1 ELSE col)
       /\ pc' = Try(ok, "init_col",
                    IF col = NumCols - 1 THEN "init_row" ELSE "init_col")
  /\ row' = 0
  /\ UNCHANGED <<level, pressed, call, key_idx, keymap, row_held, row_prev_mode,
                 waited, ret, prevRet, cleanStart, lowSamples, trace, bitVars>>

InitRow ==
  /\ pc = "init_row"
  /\ LET pin == RowPin(row) IN
     \E ok \in Outcomes :
       /\ Access(ok, {pin})
       /\ mode' = (IF ok THEN SetMode(mode, pin, "Output") ELSE mode)
       /\ level' = (IF ok THEN set_high(level, pin) ELSE level)
       /\ touched' = (IF ok THEN touched \cup {pin} ELSE touched)
       /\ row' = (IF ok THEN row + 1 ELSE row)
       /\ pc' = Try(ok, "init_row",
                    IF row = NumRows - 1 THEN "init_ret" ELSE "init_row")
  /\ UNCHANGED <<pull, pressed, call, col, key_idx, keymap, row_held,
                 row_prev_mode, waited, ret, prevRet, cleanStart, lowSamples,
                 trace, bitVars>>

InitReturn ==
  /\ pc = "init_ret"
  /\ pc' = "idle"
  /\ ret' = OkRet({})
  /\ UNCHANGED <<hwVars, call, row, col, key_idx, keymap, row_held,
                 row_prev_mode, waited, histVars, bitVars>>

\* an error of init_io: the callers give up (`expect`)
InitFail ==
  /\ pc = "unwind" /\ call = "init_io"
  /\ pc' = "aborted"
  /\ ret' = ErrRet
  /\ UNCHANGED <<hwVars, call, row, col, key_idx, keymap, row_held,
                 row_prev_mode, waited, histVars, bitVars>>

\* ------------------------------------------------------------------ scan
\* the locals of scan end with the call
ScanLocalsGone ==
  /\ row' = 0 /\ col' = 0 /\ key_idx' = 0 /\ keymap' = {}
  /\ row_prev_mode' = "None" /\ waited' = 0

ScanCall ==
  /\ pc = "idle"
  /\ \E ok \in Outcomes :
       /\ faults' = (IF ok THEN faults ELSE faults + 1)
       /\ failed' = ~ok
       /\ pc' = Try(ok, "idle", "scan_row")
  /\ call' = "scan"
  /\ key_idx' = 0
  /\ keymap' = {}
  /\ row' = 0 /\ col' = 0
  /\ row_held' = FALSE
  /\ waited' = 0
  /\ ret' = NoRet
  /\ prevRet' = (IF call = "scan" /\ ret.kind = "ok" THEN ret ELSE NoRet)
  /\ failLines' = {} /\ lateOps' = 0
  /\ cleanStart' = (ActiveRows = {})
  /\ lowSamples' = {}
  /\ trace' = <<>>
  /\ UNCHANGED <<hwVars, row_prev_mode, touched, bitVars>>

ScanRow ==
  /\ pc = "scan_row"
  /\ LET pin == RowPin(row) IN
     \E ok \in Outcomes :
       /\ Access(ok, {pin})
       /\ row_held' = ok
       /\ row_prev_mode' = (IF ok
                            THEN (IF mode[pin] = "Output" THEN "None" ELSE mode[pin])
                            ELSE row_prev_mode)
       /\ mode' = (IF ok THEN SetMode(mode, pin, "Output") ELSE mode)
       /\ level' = (IF ok THEN set_low(level, pin) ELSE level)
       /\ trace' = (IF ok THEN Append(trace, Ev("drive", row, 0)) ELSE trace)
       /\ pc' = Try(ok, "scan_row", "settle")
  /\ waited' = 0
  /\ UNCHANGED <<pull, pressed, call, row, col, key_idx, keymap, ret, prevRet,
                 touched, cleanStart, lowSamples, bitVars>>

Sleep ==
  /\ pc = "settle"
  /\ waited' = sleep(ROW_PULL_DOWN_TIME_US)
  /\ trace' = Append(trace, Ev("sleep", row, sleep(ROW_PULL_DOWN_TIME_US)))
  /\ col' = 0
  /\ pc' = "scan_col"
  /\ UNCHANGED <<hwVars, call, row, key_idx, keymap, row_held, row_prev_mode,
                 ret, prevRet, failed, failLines, lateOps, touched, cleanStart,
                 lowSamples, faults, bitVars>>

SampleCol ==
  /\ pc = "scan_col"
  /\ \E ok \in Outcomes :
       /\ Access(ok, {ColPin(col)})
       /\ \E lvl \in ReadLevels(col) :
            /\ keymap' = (IF ok THEN UpdateKeymap(keymap, key_idx, lvl = "Low")
                          ELSE keymap)
            /\ lowSamples' = (IF ok /\ lvl = "Low"
                              THEN lowSamples \cup {<<row, col>>}
                              ELSE lowSamples)
       /\ trace' = (IF ok THEN Append(trace, Ev("sample", row, col)) ELSE trace)
       /\ key_idx' = (IF ok THEN NextKeyIdx(key_idx) ELSE key_idx)
       /\ col' = (IF ok /\ col < NumCols - 1 THEN col + 1 ELSE col)
       /\ pc' = Try(ok, "scan_col",
                    IF col = NumCols - 1 THEN "row_done" ELSE "scan_col")
  /\ UNCHANGED <<hwVars, call, row, row_held, row_prev_mode, waited, ret,
                 prevRet, touched, cleanStart, bitVars>>

ReleaseRow ==
  /\ pc = "row_done"
  /\ LET pin == RowPin(row) IN
       /\ level' = set_high(level, pin)
       /\ mode' = DropOutputPin(mode, pin, row_prev_mode, TRUE)
  /\ row_held' = FALSE
  /\ trace' = Append(trace, Ev("release", row, 0))
  /\ lateOps' = (IF failed THEN 1 ELSE lateOps)
  /\ row' = (IF row < NumRows - 1 THEN row + 1 ELSE row)
  /\ pc' = AfterRow(row)
  /\ UNCHANGED <<pull, pressed, call, col, key_idx, keymap, row_prev_mode,
                 waited, ret, prevRet, failed, failLines, touched, cleanStart,
                 lowSamples, faults, bitVars>>

ScanReturn ==
  /\ pc = "scan_ret"
  /\ ret' = OkRet(keymap)
  /\ pc' = "idle"
  /\ ScanLocalsGone
  /\ UNCHANGED <<hwVars, call, row_held, histVars, bitVars>>

\* `?` in scan: the locals are dropped, row_pin among them when it is held,
\* and the error is returned
ScanFail ==
  /\ pc = "unwind" /\ call = "scan"
  /\ mode' = (IF row_held
              THEN DropOutputPin(mode, RowPin(row), row_prev_mode, TRUE)
              ELSE mode)
  /\ row_held' = FALSE
  /\ ret' = ErrRet
  /\ pc' = "idle"
  /\ ScanLocalsGone
  /\ UNCHANGED <<level, pull, pressed, call, histVars, bitVars>>

\* ------------------------------------------------------------------ keys
\* Keys change between calls; the result of the calls before is consumed
\* and what was observed of them is dropped.
Consumed ==
  /\ ret' = NoRet /\ prevRet' = NoRet
  /\ failed' = FALSE /\ failLines' = {}
  /\ cleanStart' = FALSE /\ lowSamples' = {} /\ trace' = <<>>

KeyPress ==
  /\ pc = "idle"
  /\ Cardinality(pressed) < MaxPressed
  /\ \E k \in Keys \ pressed : pressed' = pressed \cup {k}
  /\ Consumed
  /\ UNCHANGED <<mode, level, pull, pc, call, row, col, key_idx, keymap,
                 row_held, row_prev_mode, waited, lateOps, touched, faults,
                 bitVars>>

KeyRelease ==
  /\ pc = "idle"
  /\ \E k \in pressed : pressed' = pressed \ {k}
  /\ Consumed
  /\ UNCHANGED <<mode, level, pull, pc, call, row, col, key_idx, keymap,
                 row_held, row_prev_mode, waited, lateOps, touched, faults,
                 bitVars>>

Next ==
  \/ InitIoCall \/ InitCol \/ InitRow \/ InitReturn \/ InitFail
  \/ ScanCall \/ ScanRow \/ Sleep \/ SampleCol \/ ReleaseRow \/ ScanReturn
  \/ ScanFail
  \/ KeyPress \/ KeyRelease

Spec == Init /\ [][Next]_vars

\* A thread that is inside scan goes on: sleep returns and so does every
\* call to the driver.
ScanStep ==
  ScanRow \/ Sleep \/ SampleCol \/ ReleaseRow \/ ScanReturn \/ ScanFail
SpecFair == Spec /\ WF_vars(ScanStep)

\* ------------------------------------------- harness of the bit primitives
InitBits ==
  /\ mode = [p \in Pins |-> "Input"]
  /\ level = [p \in Pins |-> "Low"]
  /\ pull = [p \in Pins |-> "Off"]
  /\ pressed = {}
  /\ ProgInit
  /\ bw_in \in {{}, WordBits}
  /\ bw_out = bw_in
  /\ bw_n = 0 /\ bw_op = "none" /\ bw_get = FALSE /\ bw_steps = 0
  /\ TwoIdle /\ serial = TRUE

BitSet ==
  /\ bw_steps < MaxOps
  /\ \E n \in 0 .. (U8 - 1) :
       /\ bw_n' = n
       /\ bw_out' = set_bit_at(bw_out, n)
       /\ bw_get' = get_bit_at(set_bit_at(bw_out, n), n)
  /\ bw_in' = bw_out
  /\ bw_op' = "set"
  /\ bw_steps' = bw_steps + 1
  /\ UNCHANGED <<hwVars, progVars, histVars, twoVars>>

BitClear ==
  /\ bw_steps < MaxOps
  /\ \E n \in 0 .. (U8 - 1) :
       /\ bw_n' = n
       /\ bw_out' = clear_bit_at(bw_out, n)
       /\ bw_get' = get_bit_at(clear_bit_at(bw_out, n), n)
  /\ bw_in' = bw_out
  /\ bw_op' = "clear"
  /\ bw_steps' = bw_steps + 1
  /\ UNCHANGED <<hwVars, progVars, histVars, twoVars>>

NextBits == BitSet \/ BitClear

SpecBits == InitBits /\ [][NextBits]_vars

\* --------------------------------------------- scan called from two threads
\* Both threads run scan on the lines init_io has configured.  gpio.get of a
\* pin fails while the other thread holds that pin; `serial` says that the
\* calls go through a mutex.
RECURSIVE KeySets(_)
KeySets(n) ==
  IF n = 0 THEN {{}}
  ELSE LET S == KeySets(n - 1) IN S \cup {ks \cup {k} : ks \in S, k \in Keys}

InitTwo ==
  /\ mode = [p \in Pins |-> IF p \in RowPins THEN "Output" ELSE "Input"]
  /\ level = [p \in Pins |-> "High"]
  /\ pull = [p \in Pins |-> IF p \in ColPins THEN "PullUp" ELSE "Off"]
  /\ pressed \in KeySets(MaxPressed)
  /\ ProgInit
  /\ BitsIdle
  /\ TwoIdle
  /\ serial \in BOOLEAN

Other(c) == CHOOSE o \in Ctx : o # c

\* outcomes of gpio.get: the pin is handed out, is held by the other thread,
\* or the access fails for another reason
GetOutcomes(busy) ==
  (IF busy THEN {"busy"} ELSE {"ok"})
    \cup (IF faults < MaxFaults THEN {"fault"} ELSE {})

TLocalsGone(c) ==
  /\ t_row' = [t_row EXCEPT ![c] = 0]
  /\ t_col' = [t_col EXCEPT ![c] = 0]
  /\ t_key_idx' = [t_key_idx EXCEPT ![c] = 0]
  /\ t_keymap' = [t_keymap EXCEPT ![c] = {}]
  /\ t_prev' = [t_prev EXCEPT ![c] = "None"]

TScanCall(c) ==
  /\ t_pc[c] = "idle"
  /\ t_calls[c] < MaxCalls
  /\ serial => t_pc[Other(c)] = "idle"
  /\ \E o \in GetOutcomes(FALSE) :
       /\ faults' = (IF o = "fault" THEN faults + 1 ELSE faults)
       /\ t_pc' = [t_pc EXCEPT ![c] = Try(o = "ok", "idle", "scan_row")]
  /\ t_calls' = [t_calls EXCEPT ![c] = @ + 1]
  /\ t_ret' = [t_ret EXCEPT ![c] = NoRet]
  /\ TLocalsGone(c)
  /\ UNCHANGED <<hwVars, progVars, prevRet, failed, failLines, lateOps,
                 touched, cleanStart, lowSamples, trace, bwVars, t_held,
                 serial, ghost>>

TScanRow(c) ==
  /\ t_pc[c] = "scan_row"
  /\ LET pin == RowPin(t_row[c])
         busy == t_held[Other(c)] /\ t_row[Other(c)] = t_row[c]
     IN \E o \in GetOutcomes(busy) :
          LET ok == (o = "ok") IN
          /\ faults' = (IF o = "fault" THEN faults + 1 ELSE faults)
          /\ t_held' = [t_held EXCEPT ![c] = ok]
          /\ t_prev' = (IF ok
                        THEN [t_prev EXCEPT ![c] =
                                IF mode[pin] = "Output" THEN "None" ELSE mode[pin]]
                        ELSE t_prev)
          /\ mode' = (IF ok THEN SetMode(mode, pin, "Output") ELSE mode)
          /\ level' = (IF ok THEN set_low(level, pin) ELSE level)
          /\ t_pc' = [t_pc EXCEPT ![c] = Try(ok, "scan_row", "settle")]
  /\ UNCHANGED <<pull, pressed, progVars, prevRet, failed, failLines, lateOps,
                 touched, cleanStart, lowSamples, trace, bwVars, t_row, t_col,
                 t_key_idx, t_keymap, t_ret, t_calls, serial, ghost>>

TSleep(c) ==
  /\ t_pc[c] = "settle"
  /\ t_col' = [t_col EXCEPT ![c] = 0]
  /\ t_pc' = [t_pc EXCEPT ![c] = "scan_col"]
  /\ UNCHANGED <<hwVars, progVars, histVars, bwVars, t_row, t_key_idx,
                 t_keymap, t_held, t_prev, t_ret, t_calls, serial, ghost>>

\* the other thread holds a column pin only from its gpio.get to the end of
\* the same loop body, that is at some moment of its step at that column
TSampleCol(c) ==
  /\ t_pc[c] = "scan_col"
  /\ LET busy == t_pc[Other(c)] = "scan_col" /\ t_col[Other(c)] = t_col[c]
     IN \E o \in GetOutcomes(busy) \cup {"ok"} :
          LET ok == (o = "ok") IN
          /\ faults' = (IF o = "fault" THEN faults + 1 ELSE faults)
          /\ \E lvl \in ReadLevels(t_col[c]) :
               /\ t_keymap' = (IF ok
                               THEN [t_keymap EXCEPT ![c] =
                                       UpdateKeymap(@, t_key_idx[c], lvl = "Low")]
                               ELSE t_keymap)
               /\ ghost' = (ghost \/ (ok /\ lvl = "Low"
                                      /\ <<t_row[c], t_col[c]>> \notin pressed))
          /\ t_key_idx' = (IF ok THEN [t_key_idx EXCEPT ![c] = NextKeyIdx(@)]
                           ELSE t_key_idx)
          /\ t_col' = (IF ok /\ t_col[c] < NumCols - 1
                       THEN [t_col EXCEPT ![c] = @ + 1] ELSE t_col)
          /\ t_pc' = [t_pc EXCEPT ![c] =
                        Try(ok, "scan_col",
                            IF t_col[c] = NumCols - 1 THEN "row_done"
                            ELSE "scan_col")]
  /\ UNCHANGED <<hwVars, progVars, prevRet, failed, failLines, lateOps,
                 touched, cleanStart, lowSamples, trace, bwVars, t_row, t_held,
                 t_prev, t_ret, t_calls, serial>>

TReleaseRow(c) ==
  /\ t_pc[c] = "row_done"
  /\ LET pin == RowPin(t_row[c]) IN
       /\ level' = set_high(level, pin)
       /\ mode' = DropOutputPin(mode, pin, t_prev[c], TRUE)
  /\ t_held' = [t_held EXCEPT ![c] = FALSE]
  /\ t_row' = (IF t_row[c] < NumRows - 1 THEN [t_row EXCEPT ![c] = @ + 1]
               ELSE t_row)
  /\ t_pc' = [t_pc EXCEPT ![c] = AfterRow(t_row[c])]
  /\ UNCHANGED <<pull, pressed, progVars, histVars, bwVars, t_col, t_key_idx,
                 t_keymap, t_prev, t_ret, t_calls, serial, ghost>>

TScanReturn(c) ==
  /\ t_pc[c] = "scan_ret"
  /\ t_ret' = [t_ret EXCEPT ![c] = OkRet(t_keymap[c])]
  /\ t_pc' = [t_pc EXCEPT ![c] = "idle"]
  /\ TLocalsGone(c)
  /\ UNCHANGED <<hwVars, progVars, histVars, bwVars, t_held, t_calls, serial,
                 ghost>>

TScanFail(c) ==
  /\ t_pc[c] = "unwind"
  /\ mode' = (IF t_held[c]
              THEN DropOutputPin(mode, RowPin(t_row[c]), t_prev[c], TRUE)
              ELSE mode)
  /\ t_held' = [t_held EXCEPT ![c] = FALSE]
  /\ t_ret' = [t_ret EXCEPT ![c] = ErrRet]
  /\ t_pc' = [t_pc EXCEPT ![c] = "idle"]
  /\ TLocalsGone(c)
  /\ UNCHANGED <<level, pull, pressed, progVars, histVars, bwVars, t_calls,
                 serial, ghost>>

NextTwo ==
  \E c \in Ctx :
    \/ TScanCall(c) \/ TScanRow(c) \/ TSleep(c) \/ TSampleCol(c)
    \/ TReleaseRow(c) \/ TScanReturn(c) \/ TScanFail(c)

SpecTwo == InitTwo /\ [][NextTwo]_vars

\* ================================================================ claims
ScanPcs == {"scan_row", "settle", "scan_col", "row_done", "scan_ret", "unwind"}
KeyIndex(k) == k[1] * NumCols + k[2]
\* the bitmask of a key assignment: bit r*N_c+c for every pressed key (r, c)
Expected(keys) == {KeyIndex(k) : k \in keys}

\* C1: in a scan begun with every row inactive, whenever a column is about
\* to be sampled exactly one row is active, the row being iterated, and at no
\* point of the scan are two rows active.
C1_OneRowActive ==
  (call = "scan" /\ cleanStart /\ pc \in ScanPcs) =>
     /\ (pc = "scan_col" => ActiveRows = {row})
     /\ Cardinality(ActiveRows) <= 1
C1_Witness ==
  call = "scan" /\ cleanStart /\ pc = "scan_col" /\ row = 5 /\ col = 2

\* C2: a scan that succeeds returns the bitmask of the key assignment: bit
\* r*N_c+c is 1 iff key (r, c) is pressed, the bits from N_r*N_c up are 0,
\* and the result is 0 when no key is pressed.
C2_ResultIsAssignment ==
  (call = "scan" /\ ret.kind = "ok") =>
     /\ ret.val = Expected(pressed)
     /\ \A i \in ret.val : i < NumRows * NumCols
     /\ (pressed = {} => ret.val = FromNat(0))

\* C3 as stated: a scan to which the driver reports exactly the key at row 2,
\* column 1 returns a bitmask with exactly bit 7 set, the value 0x40.
C3_Value0x40 ==
  (call = "scan" /\ ret.kind = "ok" /\ lowSamples = {<<2, 1>>}) =>
     /\ ret.val = {2 * NumCols + 1}
     /\ ret.val = FromNat(64)
\* C3 amended: a scan to which the driver reports exactly the key at row 2,
\* column 1 returns a bitmask with exactly bit 7 set, the value 0x80.
C3_Value0x80 ==
  (call = "scan" /\ ret.kind = "ok" /\ lowSamples = {<<2, 1>>}) =>
     /\ ret.val = {2 * NumCols + 1}
     /\ ret.val = FromNat(128)
C3_Witness ==
  /\ call = "scan" /\ ret.kind = "ok"
  /\ pressed = {<<2, 1>>} /\ lowSamples = {<<2, 1>>}

\* C4: when scan samples column col of row row its counter key_idx is
\* row*N_c+col, below N_r*N_c and below 32, the index debug_print reads for
\* that cell; when all rows are done the counter is N_r*N_c and
\* (row, col) -> row*N_c+col is a bijection onto the indices below it.
C4_KeyIndexRowMajor ==
  /\ (pc = "scan_ret" =>
        /\ key_idx = NumRows * NumCols
        /\ \A k1, k2 \in Keys :
             DebugIndex(k1[1], k1[2]) = DebugIndex(k2[1], k2[2]) => k1 = k2
        /\ {DebugIndex(k[1], k[2]) : k \in Keys} = 0 .. (key_idx - 1))
  /\ (pc = "scan_col" =>
        /\ key_idx = row * NumCols + col
        /\ key_idx < NumRows * NumCols
        /\ key_idx < Width
        /\ key_idx = DebugIndex(row, col))
C4_Witness ==
  pc = "scan_col" /\ row = NumRows - 1 /\ col = NumCols - 1 /\ key_idx = 23

\* C5: two consecutive successful scans between which no key changed return
\* the same bitmask, whatever calls came before them.
C5_SameResultTwice ==
  (call = "scan" /\ ret.kind = "ok" /\ prevRet.kind = "ok") =>
     ret.val = prevRet.val

\* C6: for n < 32, the bit n reads true after set_bit_at(n) and false after
\* clear_bit_at(n), and neither changes a bit at another index.
C6_InRange ==
  (bw_op # "none" /\ bw_n < Width) =>
     /\ (bw_op = "set" => bw_get = TRUE)
     /\ (bw_op = "clear" => bw_get = FALSE)
     /\ \A m \in WordBits \ {bw_n} :
          get_bit_at(bw_out, m) = get_bit_at(bw_in, m)
C6_Witness ==
  bw_op = "clear" /\ bw_n = 31 /\ get_bit_at(bw_in, 31) /\ bw_steps = 2

\* C7: for 32 <= n <= 255, set_bit_at and clear_bit_at leave the word as it
\* was and get_bit_at is false, also right after set_bit_at(n).
C7_OutOfRange ==
  (bw_op # "none" /\ bw_n >= Width) =>
     /\ bw_out = bw_in
     /\ bw_get = FALSE
     /\ get_bit_at(bw_in, bw_n) = FALSE
C7_Witness ==
  bw_op = "set" /\ bw_n = U8 - 1 /\ bw_in # WordBits /\ bw_steps = 2

\* C8: once a line access of a scan has failed, the scan makes no further
\* access, drives and samples nothing more, and returns an error, never a
\* bitmask.
C8_FailStops ==
  [][(call' = "scan" /\ failed') =>
        /\ lateOps' = 0
        /\ pc' \in {"unwind", "idle"}
        /\ ret'.kind # "ok"
        /\ (pc = "unwind" => ret' = ErrRet /\ pc' = "idle")]_vars
C8_Witness ==
  /\ call = "scan" /\ failed /\ pc = "idle" /\ ret = ErrRet
  /\ failLines = {ColPin(1)} /\ lowSamples # {}

\* C9: when init_io has returned Ok, every column is an input with pull-up,
\* every row is an output at the high level, and no row is active.
C9_InitConfigures ==
  (call = "init_io" /\ pc = "idle") =>
     /\ \A p \in ColPins : mode[p] = "Input" /\ pull[p] = "PullUp"
     /\ \A p \in RowPins : mode[p] = "Output" /\ level[p] = "High"
     /\ ActiveRows = {}
     /\ touched = Pins
     /\ ~failed
C9_Witness ==
  call = "init_io" /\ pc = "idle" /\ ret = OkRet({})

\* C10: init_io fails at the first line it cannot acquire: it returns Err,
\* has configured exactly the lines before that one in the order columns
\* then rows, and configures none after it.
InitOrder == COLS \o ROWS
InitPos(pin) == CHOOSE i \in 1 .. Len(InitOrder) : InitOrder[i] = pin
LinesBefore(lines) ==
  {p \in Pins : \E f \in lines : InitPos(p) < InitPos(f)}
C10_InitFailsAtFirst ==
  (call = "init_io" /\ failed) =>
     /\ pc \in {"unwind", "aborted"}
     /\ (pc = "aborted" => ret = ErrRet)
     /\ lateOps = 0
     /\ Cardinality(failLines) <= 1
     /\ touched = LinesBefore(failLines)
C10_Witness ==
  /\ call = "init_io" /\ pc = "aborted" /\ ret = ErrRet
  /\ failLines = {RowPin(3)} /\ mode[RowPin(4)] = "Input"

\* what a complete scan does: per row in declared order drive, settle delay,
\* one sample per column in declared order, release
RowEvents == NumCols + 3
FullTrace ==
  [i \in 1 .. NumRows * RowEvents |->
     LET r == (i - 1) \div RowEvents
         j == (i - 1) % RowEvents
     IN IF j = 0 THEN Ev("drive", r, 0)
        ELSE IF j = 1 THEN Ev("sleep", r, ROW_PULL_DOWN_TIME_US)
        ELSE IF j = RowEvents - 1 THEN Ev("release", r, 0)
        ELSE Ev("sample", r, j - 2)]
IsPrefix(s, t) == Len(s) <= Len(t) /\ s = SubSeq(t, 1, Len(s))

\* C11: once init_io has configured the lines, at every point of every later
\* scan and after it every row is still an output and every column an input
\* with pull-up, and when a scan has returned a bitmask every row is high.
C11_ConfigDurable ==
  (call = "scan") =>
     /\ \A p \in ColPins : mode[p] = "Input" /\ pull[p] = "PullUp"
     /\ \A p \in RowPins : mode[p] = "Output"
     /\ (pc = "idle" /\ ret.kind = "ok" =>
           /\ \A p \in RowPins : level[p] = "High"
           /\ ActiveRows = {})
C11_Witness ==
  /\ call = "scan" /\ pc = "idle" /\ ret.kind = "ok" /\ prevRet.kind = "ok"
  /\ \A p \in RowPins : mode[p] = "Output" /\ level[p] = "High"

\* C12: over scans run one after another, failing ones included, two rows
\* are never active together, and when a scan has returned, with a bitmask
\* or with an error, no row is active.
C12_NoRowLeftActive ==
  (call = "scan") =>
     /\ Cardinality(ActiveRows) <= 1
     /\ (pc = "idle" => ActiveRows = {})

\* C13: in a scan the events of every row come in the order drive, settle
\* delay, samples, release; a column is sampled only when the settle delay
\* after the drive of its row has passed in full and while that row is active.
C13_SettleBeforeSample ==
  (call = "scan" /\ pc \in ScanPcs) =>
     /\ IsPrefix(trace, FullTrace)
     /\ (pc = "settle" => RowActive(row) /\ waited = 0)
     /\ (pc = "scan_col" =>
           /\ RowActive(row)
           /\ waited >= ROW_PULL_DOWN_TIME_US
           /\ \E i \in 1 .. Len(trace) :
                /\ trace[i] = Ev("sleep", row, waited)
                /\ trace[i - 1] = Ev("drive", row, 0)
                /\ \A j \in (i + 1) .. Len(trace) : trace[j].ev = "sample")
     /\ (pc = "row_done" => RowActive(row))
C13_Witness ==
  /\ call = "scan" /\ pc = "scan_col" /\ row = 3 /\ col = 1
  /\ waited = ROW_PULL_DOWN_TIME_US

\* C15: every scan ends; it ends with an error or after driving every row
\* once in declared order, sampling every column once per row in declared
\* order (N_r*N_c samples) and releasing every row once; a scan that returns
\* a bitmask has done all of that, and had no access fail.
C15_Terminates ==
  /\ [](call = "scan" /\ pc \in ScanPcs =>
          <>(pc = "idle" /\ (ret.kind = "err" \/ trace = FullTrace)))
  /\ [](call = "scan" /\ pc = "idle" /\ ret.kind = "ok" =>
          /\ trace = FullTrace
          /\ ~failed
          /\ Cardinality({i \in 1 .. Len(trace) : trace[i].ev = "sample"})
               = NumRows * NumCols)
  /\ [](call = "scan" /\ pc = "idle" /\ trace # FullTrace => ret.kind # "ok")
C15_Witness ==
  call = "scan" /\ pc = "idle" /\ ret.kind = "ok" /\ trace = FullTrace

\* C16: a sample step makes bit key_idx of the accumulator equal to the
\* state just read and leaves the other bits alone, exactly as the
\* unconditional set-or-clear does; so at every point of a scan the bits of
\* the sampled cells are their sampled states and the other bits are 0.
C16_WriteEveryBit ==
  /\ [](call = "scan" /\ pc \in ScanPcs =>
          /\ keymap = {KeyIndex(k) : k \in lowSamples}
          /\ \A i \in keymap : i < key_idx)
  /\ [][(pc = "scan_col" /\ key_idx' # key_idx) =>
          LET is_pressed == <<row, col>> \in lowSamples' IN
            /\ get_bit_at(keymap', key_idx) = is_pressed
            /\ \A m \in WordBits \ {key_idx} :
                 get_bit_at(keymap', m) = get_bit_at(keymap, m)
            /\ keymap' = (IF is_pressed THEN set_bit_at(keymap, key_idx)
                          ELSE clear_bit_at(keymap, key_idx))]_vars
C16_Witness ==
  /\ call = "scan" /\ pc = "scan_col" /\ key_idx = 5
  /\ keymap = {4} /\ lowSamples = {<<1, 1>>}

\* C14: when the scan calls of the two threads go through a mutex, no state
\* has two rows active (without it such a state is reached, and a sample
\* taken in it sets the bit of a key that is not pressed).
C14_SerialOneRow ==
  serial => Cardinality(ActiveRows) <= 1
\* two interleaved scans in which every access succeeds or meets a held pin
C14_InterleavedTwoRows ==
  ~serial /\ faults = 0 /\ Cardinality(ActiveRows) = 2 /\ ghost
\* serialized scans in which no access fails
C14_SerialNoFault ==
  (serial /\ faults = 0) => (Cardinality(ActiveRows) <= 1 /\ ~ghost)

====
